---------------------------- MODULE Spec2Model ----------------------------
(***************************************************************************)
(* Layout-aware RAG demo: chunk construction and identity                  *)
(* (backend/docling_processor.py), the evidence store gateway and the      *)
(* similarity search (backend/neo4j_handler.py), the upload and query      *)
(* operations (backend/main.py) and citation extraction / linking          *)
(* (backend/citation_processor.py).                                        *)
(*                                                                         *)
(* A Python str is a sequence of one-character strings.  A bounding box is *)
(* the tuple <<left, top, right, bottom>>.                                 *)
(***************************************************************************)
EXTENDS Integers, Sequences, FiniteSets, TLC

VARIABLES
    \* --- structure_aware_chunking (pure function under SpecChunk) ---
    parsed,        \* what self.chunker.chunk(doc) yields, in traversal order
    chunks_data,   \* the list structure_aware_chunking returns
    cstage,        \* "input" before the call, "done" after it
    \* --- citation resolver (pure functions under SpecCite) ---
    answer_text,   \* the answer text handed to extract / linkify
    candidates,    \* the search_results handed to extract_cited_chunks
    cited_chunks,  \* the mapping extract_cited_chunks returned
    linked,        \* the text linkify_citations returned
    xstage,        \* "input", "extracted", "linked"
    \* --- evidence store, upload and query (Spec) ---
    store,         \* the graph: nodes, relationships, next internal id
    uploads,       \* number of uploads so far (the uuid4 source)
    lastIngest,    \* the (doc, pages, chunks) of the latest upsert_document
    ingestLog,     \* per upload: the file and the chunk ids it produced
    lastQuery,     \* the parameters of the latest vector_search
    results,       \* the list the latest vector_search returned
    \* --- service life cycle and the query operation (SpecService) ---
    proc,          \* the backend process: "down", "serving", "crashed"
    db,            \* the store as a service: reachable, constraints, index
    request,       \* the latest query request, and who sent it
    response,      \* what the latest query operation answered
    calls,         \* services the latest query operation invoked, in order
    \* --- the upload operation step by step (SpecUpload) ---
    fs,            \* the files below uploads/ and documents/
    outcome,       \* what the latest upload operation answered
    invoked,       \* steps the latest upload operation executed, in order
    \* --- write transactions of the store (SpecTx) ---
    txs,           \* per execute_write call: status, arguments, progress
    commitLog,     \* the arguments of the committed transactions, in order
    observed       \* what the latest reader saw

vars == <<parsed, chunks_data, cstage,
          answer_text, candidates, cited_chunks, linked, xstage,
          store, uploads, lastIngest, ingestLog, lastQuery, results,
          proc, db, request, response, calls,
          fs, outcome, invoked,
          txs, commitLog, observed>>

chunkVars == <<parsed, chunks_data, cstage>>
citeVars  == <<answer_text, candidates, cited_chunks, linked, xstage>>
storeVars == <<store, uploads, lastIngest, ingestLog, lastQuery, results>>
svcVars   == <<proc, db, request, response, calls>>
upVars    == <<fs, outcome, invoked>>
txVars    == <<txs, commitLog, observed>>
extVars   == <<svcVars, upVars, txVars>>

(***************************************************************************)
(* Bounds of the model.                                                    *)
(***************************************************************************)
\* chunks one chunker run yields
MaxChunks == 2
\* length of the filler that precedes the last three characters of a long text
PadLen == 158
\* length of an answer text
MaxTextLen == 6
\* uploads in one behaviour
MaxUploads == 2
\* largest k and limit a query asks for
MaxK == 2
MaxLimit == 2

(***************************************************************************)
(* Program constants.                                                      *)
(***************************************************************************)
\* make_id hashes text[:160]
IdPrefixLen == 160

----------------------------------------------------------------------------
(***************************************************************************)
(* Strings and numbers.                                                    *)
(***************************************************************************)
Min(S) == CHOOSE x \in S : \A y \in S : x <= y
Max(S) == CHOOSE x \in S : \A y \in S : x >= y

Range(s) == {s[i] : i \in DOMAIN s}

SeqsUpTo(S, n) == UNION {[1..m -> S] : m \in 0..n}

Take(s, n) == SubSeq(s, 1, IF Len(s) < n THEN Len(s) ELSE n)

IsSpace(c) == c \in {" ", "\n", "\t"}

\* str.strip(): leading and trailing whitespace removed
strip(s) ==
    LET keep == {i \in 1..Len(s) : ~IsSpace(s[i])}
    IN  IF keep = {} THEN <<>> ELSE SubSeq(s, Min(keep), Max(keep))

Digit(n) == CASE n = 0 -> "0" [] n = 1 -> "1" [] n = 2 -> "2" [] n = 3 -> "3"
              [] n = 4 -> "4" [] n = 5 -> "5" [] n = 6 -> "6" [] n = 7 -> "7"
              [] n = 8 -> "8" [] n = 9 -> "9"

\* str(n) / f"{n}" of a non-negative int
RECURSIVE Str(_)
Str(n) == IF n < 10 THEN <<Digit(n)>> ELSE Str(n \div 10) \o <<Digit(n % 10)>>

\* the two hex digits of a character's UTF-8 byte
CharHex(c) ==
    CASE c = " " -> <<"2", "0">>
      [] c = "0" -> <<"3", "0">> [] c = "1" -> <<"3", "1">>
      [] c = "2" -> <<"3", "2">> [] c = "3" -> <<"3", "3">>
      [] c = "4" -> <<"3", "4">> [] c = "5" -> <<"3", "5">>
      [] c = "6" -> <<"3", "6">> [] c = "7" -> <<"3", "7">>
      [] c = "8" -> <<"3", "8">> [] c = "9" -> <<"3", "9">>
      [] c = ":" -> <<"3", "a">> [] c = "[" -> <<"5", "b">>
      [] c = "]" -> <<"5", "d">> [] c = "a" -> <<"6", "1">>
      [] c = "b" -> <<"6", "2">> [] c = "x" -> <<"7", "8">>

\* hashlib.sha1(s.encode("utf-8")).hexdigest(): a digest of hex digits that
\* is a function of s alone.  SHA-1 is treated as collision-free, so the
\* digest is modelled by an injective hex encoding of s.
sha1_hexdigest(s) ==
    [i \in 1..(2 * Len(s)) |-> CharHex(s[(i + 1) \div 2])[((i + 1) % 2) + 1]]

----------------------------------------------------------------------------
(***************************************************************************)
(* Chunk Builder: DoclingProcessor.                                        *)
(***************************************************************************)
make_id_no_page(text, page) == sha1_hexdigest(<<":">> \o Take(text, IdPrefixLen))

\* make_id: sha1 of f"{page}:{text[:160]}"
make_id(text, page) ==
    sha1_hexdigest(Str(page) \o <<":">> \o Take(text, IdPrefixLen))

\* get_embedding: the embedding service, a function of the text alone.  The
\* vector is stood for by two coordinates (the reference model has 384).
get_embedding(text) ==
    << Cardinality({i \in 1..Len(text) : text[i] = "a"}),
       Cardinality({i \in 1..Len(text) : text[i] = "b"}) >>

\* the loop over chunk_meta.doc_items: of every item that has provenance,
\* its FIRST provenance record (doc_item.prov[0])
first_provs(doc_items) ==
    LET withProv == SelectSeq(doc_items, LAMBDA it : it.prov # <<>>)
    IN  [i \in 1..Len(withProv) |-> withProv[i].prov[1]]

\* all_bboxes: [l, t, r, b] of each collected provenance record (every
\* provenance record the parser reports carries a bbox)
all_bboxes(doc_items) ==
    LET fp == first_provs(doc_items) IN [i \in 1..Len(fp) |-> fp[i].bbox]

merge_bboxes_swapped(boxes) ==
    << Max({boxes[i][1] : i \in DOMAIN boxes}),
       Max({boxes[i][2] : i \in DOMAIN boxes}),
       Min({boxes[i][3] : i \in DOMAIN boxes}),
       Min({boxes[i][4] : i \in DOMAIN boxes}) >>

\* the merged bbox [min_l, max_t, max_r, min_b] of a non-empty list of boxes
merge_bboxes(boxes) ==
    << Min({boxes[i][1] : i \in DOMAIN boxes}),
       Max({boxes[i][2] : i \in DOMAIN boxes}),
       Max({boxes[i][3] : i \in DOMAIN boxes}),
       Min({boxes[i][4] : i \in DOMAIN boxes}) >>

\* page_num after the doc_items loop: 1, overwritten by every item that has
\* provenance with its first record's page_no (the last such item wins)
chunk_page_num(doc_items) ==
    LET fp == first_provs(doc_items)
    IN  IF fp = <<>> THEN 1 ELSE fp[Len(fp)].page_no

\* bbox after the doc_items loop
chunk_bbox(doc_items) ==
    LET boxes == all_bboxes(doc_items)
    IN  IF boxes = <<>> THEN <<0, 0, 0, 0>> ELSE merge_bboxes(boxes)

chunk_text_unstripped(chunk) == chunk.text

\* chunk_text = chunk.text.strip()
chunk_text(chunk) == strip(chunk.text)

\* the ChunkData built from one chunk the chunker yields
ChunkData(chunk) ==
    LET page_num == chunk_page_num(chunk.doc_items)
        text     == chunk_text(chunk)
    IN  [ id        |-> make_id(text, page_num),
          text      |-> text,
          page_num  |-> page_num,
          bbox      |-> chunk_bbox(chunk.doc_items),
          headings  |-> chunk.headings,
          embedding |-> get_embedding(text) ]

\* structure_aware_chunking: one ChunkData per yielded chunk, in order; a
\* chunk whose stripped text is empty is skipped (continue)
RECURSIVE structure_aware_chunking(_)
structure_aware_chunking(chunker_output) ==
    IF chunker_output = <<>> THEN <<>>
    ELSE LET chunk == Head(chunker_output)
             rest  == structure_aware_chunking(Tail(chunker_output))
         IN  IF chunk_text(chunk) = <<>> THEN rest
             ELSE <<ChunkData(chunk)>> \o rest

----------------------------------------------------------------------------
(***************************************************************************)
(* Inputs of the chunk builder: what the parsing engine and the chunker    *)
(* can hand over.                                                          *)
(***************************************************************************)
Prov(p, b) == [page_no |-> p, bbox |-> b]
Item(provs) == [prov |-> provs]

\* the two boxes of the specification's merge example, a box disjoint from
\* both, and a box in top-left-origin coordinates (top < bottom)
BoxA == <<0, 10, 5, 0>>
BoxB == <<3, 12, 8, 2>>
BoxC == <<6, 4, 9, 1>>
BoxTopLeft == <<1, 2, 4, 7>>

ItemNoProv == Item(<<>>)
ItemA      == Item(<<Prov(1, BoxA)>>)
ItemB      == Item(<<Prov(1, BoxB)>>)
ItemC      == Item(<<Prov(2, BoxC)>>)
\* an item whose content continues on the next page: two provenance records
ItemSplit  == Item(<<Prov(1, BoxA), Prov(2, BoxB)>>)
ItemTopLeft == Item(<<Prov(1, BoxTopLeft)>>)

DocItemLists ==
    { <<>>, <<ItemNoProv>>, <<ItemA>>, <<ItemA, ItemB>>, <<ItemA, ItemC>>,
      <<ItemC, ItemNoProv>>, <<ItemSplit>>, <<ItemTopLeft, ItemA>> }

Pad == [i \in 1..PadLen |-> "x"]

\* texts: blank, in need of trimming, short, and long ones that differ inside
\* and after the first IdPrefixLen characters
ChunkTexts ==
    { <<" ">>, <<"a">>, <<" ", "a", " ">>,
      Pad \o <<"a", "a", "a">>, Pad \o <<"a", "a", "b">>,
      Pad \o <<"b", "a", "a">> }

RawChunk(t, items) == [text |-> t, doc_items |-> items, headings |-> <<>>]

RawChunks ==
    {RawChunk(t, <<ItemA>>) : t \in ChunkTexts}
      \cup {RawChunk(<<"a">>, items) : items \in DocItemLists}
      \cup {RawChunk(Pad \o <<"a", "a", "a">>, <<ItemC>>)}

----------------------------------------------------------------------------
(***************************************************************************)
(* SpecChunk: structure_aware_chunking applied to a bounded chunker run.   *)
(***************************************************************************)
ChunkIdle == parsed = <<>> /\ chunks_data = <<>> /\ cstage = "idle"
CiteIdle  == /\ answer_text = <<>> /\ candidates = <<>>
             /\ cited_chunks = <<>> /\ linked = <<>> /\ xstage = "idle"
EmptyStore == [documents |-> {}, pages |-> {}, chunks |-> {}, rels |-> {},
               nextId |-> 1]
StoreIdle == /\ store = EmptyStore /\ uploads = 0 /\ lastIngest = <<>>
             /\ ingestLog = <<>> /\ lastQuery = <<>> /\ results = <<>>

\* the state of the operations a specification does not exercise
NoDb    == [reachable |-> TRUE, constraints |-> {}, index |-> FALSE]
NoFiles == [uploads |-> {}, documents |-> {}]
SvcIdle == /\ proc = "down" /\ db = NoDb /\ request = <<>>
           /\ response = <<>> /\ calls = <<>>
UpIdle  == fs = NoFiles /\ outcome = <<>> /\ invoked = <<>>
TxIdle  == txs = <<>> /\ commitLog = <<>> /\ observed = <<>>
ExtIdle == SvcIdle /\ UpIdle /\ TxIdle

InitChunk ==
    /\ parsed \in SeqsUpTo(RawChunks, MaxChunks)
    /\ chunks_data = <<>>
    /\ cstage = "input"
    /\ CiteIdle /\ StoreIdle /\ ExtIdle

Chunking ==
    /\ cstage = "input"
    /\ chunks_data' = structure_aware_chunking(parsed)
    /\ cstage' = "done"
    /\ UNCHANGED <<parsed, citeVars, storeVars, extVars>>

NextChunk == Chunking

SpecChunk == InitChunk /\ [][NextChunk]_vars

----------------------------------------------------------------------------
(***************************************************************************)
(* Citation Resolver: CitationProcessor.                                   *)
(***************************************************************************)
\* where a match of r'\[([^\]]+)\]' that starts at position i ends, or 0 when
\* there is none: "[", one or more characters other than "]", then "]"
match_end(text, i) ==
    IF /\ i + 2 <= Len(text)
       /\ text[i] = "["
       /\ text[i + 1] # "]"
       /\ \E j \in (i + 2)..Len(text) : text[j] = "]"
    THEN Min({j \in (i + 2)..Len(text) : text[j] = "]"})
    ELSE 0

\* re.findall(chunk_pattern, text) scanning from position i: group 1 of each
\* non-overlapping match, left to right
RECURSIVE findall_from(_, _)
findall_from(text, i) ==
    IF i > Len(text) THEN <<>>
    ELSE LET e == match_end(text, i)
         IN  IF e = 0 THEN findall_from(text, i + 1)
             ELSE <<SubSeq(text, i + 1, e - 1)>> \o findall_from(text, e + 1)

findall(text) == findall_from(text, 1)

\* the evidence payload built from one search result
payload_of(result) ==
    [ docId |-> result.doc.id,
      page  |-> result.chunk.page_num,
      bbox  |-> result.chunk.bbox,
      text  |-> result.chunk.text ]

cited_unchecked(result, cited_ids) == TRUE

\* `if chunk_id in cited_ids`
cited(result, cited_ids) == result.chunk.id \in Range(cited_ids)

\* the loop of extract_cited_chunks over search_results[n..]: a dict
\* assignment per cited result, a later result overwriting an earlier one
RECURSIVE extract_loop(_, _, _)
extract_loop(search_results, cited_ids, acc) ==
    IF search_results = <<>> THEN acc
    ELSE LET result == Head(search_results)
             next   == IF cited(result, cited_ids)
                       THEN (result.chunk.id :> payload_of(result)) @@ acc
                       ELSE acc
         IN  extract_loop(Tail(search_results), cited_ids, next)

\* extract_cited_chunks(answer_text, search_results)
extract_cited_chunks(text, search_results) ==
    extract_loop(search_results, findall(text), <<>>)

\* the characters of a literal
LitOpen   == <<"[", "<", "a", " ", "h", "r", "e", "f", "=", "'">>
LitViewer == <<"/", "v", "i", "e", "w", "e", "r", "?">>
LitDoc    == <<"d", "o", "c", "=">>
LitPage   == <<"&", "p", "a", "g", "e", "=">>
LitBbox   == <<"&", "b", "b", "o", "x", "=">>
LitTarget == <<"'", " ", "t", "a", "r", "g", "e", "t", "=", "'", "_", "b",
               "l", "a", "n", "k", "'", " ", "r", "e", "l", "=", "'", "n",
               "o", "o", "p", "e", "n", "e", "r", "'", ">">>
LitClose  == <<"<", "/", "a", ">", "]">>

\* url = f"/viewer?doc={docId}&page={page}&bbox={b0},{b1},{b2},{b3}"
viewer_url(payload) ==
    LitViewer \o LitDoc \o payload.docId \o LitPage \o Str(payload.page)
      \o LitBbox \o Str(payload.bbox[1]) \o <<",">> \o Str(payload.bbox[2])
      \o <<",">> \o Str(payload.bbox[3]) \o <<",">> \o Str(payload.bbox[4])

\* repl(match): the replacement of one marker whose group 1 is group1
repl(group1, id_to_payload) ==
    LET chunk_id == strip(group1)
    IN  IF chunk_id \notin DOMAIN id_to_payload
        THEN <<"[">> \o chunk_id \o <<"]">>
        ELSE LitOpen \o viewer_url(id_to_payload[chunk_id]) \o LitTarget
               \o chunk_id \o LitClose

\* re.sub(pattern, repl, text) scanning from position i
RECURSIVE sub_from(_, _, _)
sub_from(text, i, id_to_payload) ==
    IF i > Len(text) THEN <<>>
    ELSE LET e == match_end(text, i)
         IN  IF e = 0 THEN <<text[i]>> \o sub_from(text, i + 1, id_to_payload)
             ELSE repl(SubSeq(text, i + 1, e - 1), id_to_payload)
                    \o sub_from(text, e + 1, id_to_payload)

linkify_first_only(text, id_to_payload) ==
    LET starts == {i \in 1..Len(text) : match_end(text, i) # 0}
    IN  IF starts = {} THEN text
        ELSE LET i == Min(starts)
                 e == match_end(text, i)
             IN  SubSeq(text, 1, i - 1)
                   \o repl(SubSeq(text, i + 1, e - 1), id_to_payload)
                   \o SubSeq(text, e + 1, Len(text))

\* linkify_citations(text, id_to_payload)
linkify_citations(text, id_to_payload) == sub_from(text, 1, id_to_payload)

----------------------------------------------------------------------------
(***************************************************************************)
(* Inputs of the citation resolver: answers over a small alphabet and the  *)
(* result lists a query can hand over.  Chunk ids are hex digests.         *)
(***************************************************************************)
TextAlphabet == {"[", "]", "a", " "}

QueryResult(cid, docId, page, bbox, text, score) ==
    [ chunk |-> [id |-> cid, text |-> text, bbox |-> bbox, page_num |-> page,
                 headings |-> <<>>],
      doc   |-> [id |-> docId, title |-> <<"t">>],
      page  |-> page,
      score |-> score ]

ResA1 == QueryResult(<<"a">>, <<"d", "1">>, 2, <<1, 2, 3, 4>>, <<"x">>, 3)
\* the same chunk reached through the page of a second document
ResA2 == QueryResult(<<"a">>, <<"d", "2">>, 2, <<1, 2, 3, 4>>, <<"x">>, 3)
ResB  == QueryResult(<<"a", "a">>, <<"d", "1">>, 1, <<0, 12, 8, 0>>, <<"b">>, 1)

CandidateLists == { <<>>, <<ResA1>>, <<ResB>>, <<ResA1, ResB>>, <<ResA1, ResA2>> }

----------------------------------------------------------------------------
(***************************************************************************)
(* SpecCite: extract_cited_chunks, then linkify_citations with the map it  *)
(* returned, on a bounded answer and candidate list.                       *)
(***************************************************************************)
InitCite ==
    /\ answer_text \in SeqsUpTo(TextAlphabet, MaxTextLen)
    /\ candidates \in CandidateLists
    /\ cited_chunks = <<>>
    /\ linked = <<>>
    /\ xstage = "input"
    /\ ChunkIdle /\ StoreIdle /\ ExtIdle

ExtractCited ==
    /\ xstage = "input"
    /\ cited_chunks' = extract_cited_chunks(answer_text, candidates)
    /\ xstage' = "extracted"
    /\ UNCHANGED <<answer_text, candidates, linked, chunkVars, storeVars, extVars>>

Linkify ==
    /\ xstage = "extracted"
    /\ linked' = linkify_citations(answer_text, cited_chunks)
    /\ xstage' = "linked"
    /\ UNCHANGED <<answer_text, candidates, cited_chunks, chunkVars, storeVars,
                   extVars>>

NextCite == ExtractCited \/ Linkify

SpecCite == InitCite /\ [][NextCite]_vars

----------------------------------------------------------------------------
(***************************************************************************)
(* Evidence Store Gateway: Neo4jHandler.  The graph holds nodes and        *)
(* relationships, each with an identity of its own (nid, rid), so that two *)
(* nodes with one key, or two relationships between one pair of nodes, are *)
(* states the model can express.                                           *)
(***************************************************************************)
match_document(st, id) == {d \in st.documents : d.id = id}
match_page(st, docId, n) == {p \in st.pages : p.docId = docId /\ p.page_num = n}

match_chunk_none(st, id) == {}

\* the Chunk nodes MERGE (c:Chunk {id: $id}) matches
match_chunk(st, id) == {c \in st.chunks : c.id = id}

\* MERGE (a)-[:type]->(b): create the relationship unless one exists
merge_rel(st, type, from, to) ==
    IF \E r \in st.rels : r.type = type /\ r.from = from /\ r.to = to
    THEN st
    ELSE [st EXCEPT
            !.rels = @ \cup {[rid |-> st.nextId, type |-> type,
                              from |-> from, to |-> to]},
            !.nextId = @ + 1]

\* the MERGE of a relationship for every row <<from, to>> of a MATCH
RECURSIVE merge_rels(_, _, _)
merge_rels(st, type, rows) ==
    IF rows = {} THEN st
    ELSE LET row == CHOOSE row \in rows : TRUE
         IN  merge_rels(merge_rel(st, type, row[1], row[2]), type, rows \ {row})

\* MERGE (d:Document {id: $id}) SET d.title, d.source_uri, d.family
merge_document(st, doc) ==
    LET m == match_document(st, doc.id)
    IN  IF m = {}
        THEN [st EXCEPT
                !.documents = @ \cup {[nid |-> st.nextId, id |-> doc.id,
                                       title |-> doc.title,
                                       source_uri |-> doc.source_uri,
                                       family |-> doc.family]},
                !.nextId = @ + 1]
        ELSE [st EXCEPT
                !.documents = (@ \ m) \cup
                    {[d EXCEPT !.title = doc.title,
                               !.source_uri = doc.source_uri,
                               !.family = doc.family] : d \in m}]

\* MERGE (p:Page {docId, page_num}) SET p.width, p.height
\* WITH p MATCH (d:Document {id: $docId}) MERGE (p)-[:OF]->(d)
merge_page(st, page) ==
    LET m   == match_page(st, page.docId, page.page_num)
        st1 == IF m = {}
               THEN [st EXCEPT
                       !.pages = @ \cup {[nid |-> st.nextId,
                                          docId |-> page.docId,
                                          page_num |-> page.page_num,
                                          width |-> page.width,
                                          height |-> page.height]},
                       !.nextId = @ + 1]
               ELSE [st EXCEPT
                       !.pages = (@ \ m) \cup
                           {[p EXCEPT !.width = page.width,
                                      !.height = page.height] : p \in m}]
        ps  == match_page(st1, page.docId, page.page_num)
        ds  == match_document(st1, page.docId)
    IN  merge_rels(st1, "OF", {<<p.nid, d.nid>> : p \in ps, d \in ds})

\* MERGE (c:Chunk {id}) SET c.text, c.page_num, c.bbox, c.headings,
\* c.embedding WITH c MATCH (p:Page {docId: $docId, page_num: $page})
\* MERGE (c)-[:IN_PAGE]->(p)
merge_chunk(st, chunk, docId) ==
    LET m   == match_chunk(st, chunk.id)
        st1 == IF m = {}
               THEN [st EXCEPT
                       !.chunks = @ \cup {[nid |-> st.nextId, id |-> chunk.id,
                                           text |-> chunk.text,
                                           page_num |-> chunk.page_num,
                                           bbox |-> chunk.bbox,
                                           headings |-> chunk.headings,
                                           embedding |-> chunk.embedding]},
                       !.nextId = @ + 1]
               ELSE [st EXCEPT
                       !.chunks = (@ \ m) \cup
                           {[c EXCEPT !.text = chunk.text,
                                      !.page_num = chunk.page_num,
                                      !.bbox = chunk.bbox,
                                      !.headings = chunk.headings,
                                      !.embedding = chunk.embedding] : c \in m}]
        cs  == {c \in st1.chunks : c.id = chunk.id}
        ps  == match_page(st1, docId, chunk.page_num)
    IN  merge_rels(st1, "IN_PAGE", {<<c.nid, p.nid>> : c \in cs, p \in ps})

RECURSIVE merge_pages(_, _)
merge_pages(st, pages) ==
    IF pages = <<>> THEN st
    ELSE merge_pages(merge_page(st, Head(pages)), Tail(pages))

RECURSIVE merge_chunks(_, _, _)
merge_chunks(st, chunks, docId) ==
    IF chunks = <<>> THEN st
    ELSE merge_chunks(merge_chunk(st, Head(chunks), docId), Tail(chunks), docId)

\* _upsert_document_tx: the Document, then every page, then every chunk
upsert_document_tx(st, doc, pages, chunks) ==
    merge_chunks(merge_pages(merge_document(st, doc), pages), chunks, doc.id)

\* db.index.vector.queryNodes scores a node by the similarity of its
\* embedding to the query's; the store-native score is stood for by the
\* inner product of the two vectors
similarity(queryEmbedding, embedding) ==
    queryEmbedding[1] * embedding[1] + queryEmbedding[2] * embedding[2]

\* CALL db.index.vector.queryNodes('chunk_vec', $k, $queryEmbedding): the
\* k nearest Chunk nodes; which of several equally near nodes are returned
\* is the store's choice, so this is the set of possible answers
query_nodes(st, k, queryEmbedding) ==
    LET n == Cardinality(st.chunks)
        m == IF k < n THEN k ELSE n
    IN  { S \in SUBSET st.chunks :
            /\ Cardinality(S) = m
            /\ \A c \in S : \A o \in st.chunks \ S :
                  similarity(queryEmbedding, c.embedding)
                      >= similarity(queryEmbedding, o.embedding) }

\* the paths (c)-[:IN_PAGE]->(p:Page)-[:OF]->(d:Document) from chunk c, one
\* per pair of relationships
paths_from(st, c) ==
    { pt \in st.rels \X st.rels :
        /\ pt[1].type = "IN_PAGE" /\ pt[1].from = c.nid
        /\ pt[2].type = "OF" /\ pt[2].from = pt[1].to
        /\ \E p \in st.pages : p.nid = pt[1].to
        /\ \E d \in st.documents : d.nid = pt[2].to }

\* `if doc_type and doc_type != "general"`; "" stands for None
filter_applies(doc_type) == doc_type # "" /\ doc_type # "general"

\* WHERE c.family = $docType OR EXISTS((c)-[:IN_PAGE]->(:Page)-[:OF]->
\* (:Document {family: $docType})); a Chunk node has no family property
where_family(st, c, doc_type) ==
    \E pt \in paths_from(st, c) :
        \E d \in st.documents : d.nid = pt[2].to /\ d.family = doc_type

\* the record RETURNed for one path
result_row(st, c, pt, score) ==
    LET p == CHOOSE p \in st.pages : p.nid = pt[1].to
        d == CHOOSE d \in st.documents : d.nid = pt[2].to
    IN  [ chunk |-> [id |-> c.id, text |-> c.text, bbox |-> c.bbox,
                     page_num |-> c.page_num, headings |-> c.headings],
          doc   |-> [id |-> d.id, title |-> d.title],
          page  |-> p.page_num,
          score |-> score ]

\* the rows of the query before ORDER BY, keyed by chunk and path
result_keys(st, nodes, doc_type) ==
    { key \in nodes \X (st.rels \X st.rels) :
        /\ key[2] \in paths_from(st, key[1])
        /\ filter_applies(doc_type) => where_family(st, key[1], doc_type) }

\* ORDER BY score DESC LIMIT $limit: the first `limit` rows of an ordering
\* by non-increasing score; rows of equal score come in the store's order
ordered_limited(st, keys, queryEmbedding, limit) ==
    LET n == Cardinality(keys)
        m == IF limit < n THEN limit ELSE n
        sc(key) == similarity(queryEmbedding, key[1].embedding)
    IN  { [i \in 1..m |-> result_row(st, ks[i][1], ks[i][2], sc(ks[i]))] :
            ks \in { f \in [1..m -> keys] :
                       /\ \A i, j \in 1..m : i # j => f[i] # f[j]
                       /\ \A i, j \in 1..m : i < j => sc(f[i]) >= sc(f[j])
                       /\ \A o \in keys \ Range(f) :
                             \A i \in 1..m : sc(f[i]) >= sc(o) } }

\* vector_search: the lists the call can return
vector_search(st, queryEmbedding, k, doc_type, limit) ==
    UNION { ordered_limited(st, result_keys(st, nodes, doc_type),
                            queryEmbedding, limit)
            : nodes \in query_nodes(st, k, queryEmbedding) }

----------------------------------------------------------------------------
(***************************************************************************)
(* Upload: what the parser reports for a file, and the metadata built from *)
(* it.                                                                     *)
(***************************************************************************)
DefaultWidth == 612
DefaultHeight == 792

\* extract_document_metadata: title from the parse (else the file stem),
\* family "general"
extract_document_metadata(docling_data, doc_id) ==
    [ id         |-> doc_id,
      title      |-> IF docling_data.title # <<>> THEN docling_data.title
                     ELSE doc_id,
      source_uri |-> <<"f", "i", "l", "e", ":", "/", "/">> \o doc_id,
      family     |-> "general" ]

\* page_dims when the parse has no pages data: one 612 x 792 entry per page
\* that the first provenance record of some text item names, in order of
\* first appearance
RECURSIVE dims_from_texts(_, _)
dims_from_texts(texts, seen) ==
    IF texts = <<>> THEN <<>>
    ELSE LET prov == Head(texts).prov
         IN  IF prov # <<>> /\ prov[1].page_no \notin seen
             THEN <<[page_num |-> prov[1].page_no, width |-> DefaultWidth,
                     height |-> DefaultHeight]>>
                    \o dims_from_texts(Tail(texts), seen \cup {prov[1].page_no})
             ELSE dims_from_texts(Tail(texts), seen)

\* page_dims from the parse's pages data: size defaults to 612 x 792
dims_from_pages(pages_data) ==
    [i \in 1..Len(pages_data) |->
        [ page_num |-> pages_data[i].page_num,
          width    |-> IF pages_data[i].size = <<>> THEN DefaultWidth
                       ELSE pages_data[i].size[1],
          height   |-> IF pages_data[i].size = <<>> THEN DefaultHeight
                       ELSE pages_data[i].size[2] ]]

\* extract_page_metadata: one PageMeta per entry of page_dims
extract_page_metadata(docling_data, doc_id) ==
    LET page_dims == IF docling_data.pages # <<>>
                     THEN dims_from_pages(docling_data.pages)
                     ELSE dims_from_texts(docling_data.texts, {})
    IN  [i \in 1..Len(page_dims) |->
            [ docId |-> doc_id, page_num |-> page_dims[i].page_num,
              width |-> page_dims[i].width, height |-> page_dims[i].height ]]

\* doc_id = str(uuid.uuid4()): an id no earlier upload got
new_doc_id(n) == <<"d">> \o Str(n)

\* PDF files: what the parser and the chunker report for each
FileA ==
    [ name |-> "A.pdf",
      docling_data |-> [ title |-> <<"A">>,
                         pages |-> <<[page_num |-> 1, size |-> <<600, 800>>]>>,
                         texts |-> <<ItemA>> ],
      chunker_output |-> <<RawChunk(<<"a">>, <<ItemA>>)>> ]

\* a second document whose first chunk has the leading text and page of
\* FileA's chunk
FileB ==
    [ name |-> "B.pdf",
      docling_data |-> [ title |-> <<>>,
                         pages |-> <<[page_num |-> 1, size |-> <<>>],
                                     [page_num |-> 2, size |-> <<>>]>>,
                         texts |-> <<ItemB, ItemC>> ],
      chunker_output |-> << RawChunk(<<" ", "a", " ">>, <<ItemB>>),
                            RawChunk(<<"b">>, <<ItemC>>) >> ]

\* a parse without pages data
FileC ==
    [ name |-> "C.pdf",
      docling_data |-> [ title |-> <<"C">>, pages |-> <<>>,
                         texts |-> <<ItemA, ItemNoProv>> ],
      chunker_output |-> <<RawChunk(<<"a", "b">>, <<ItemA, ItemNoProv>>)>> ]

Files == {FileA, FileB, FileC}

Queries == {<<"a">>, <<"b">>}
DocTypes == {"", "general", "legal"}

----------------------------------------------------------------------------
(***************************************************************************)
(* Spec: uploads, repeated upserts and similarity searches on one store.   *)
(***************************************************************************)
Init ==
    /\ store = EmptyStore
    /\ uploads = 0
    /\ lastIngest = <<>>
    /\ ingestLog = <<>>
    /\ lastQuery = <<>>
    /\ results = <<>>
    /\ ChunkIdle /\ CiteIdle /\ ExtIdle

\* upload_pdf of a .pdf file, every step succeeding
Upload(file) ==
    /\ uploads < MaxUploads
    /\ LET doc_id     == new_doc_id(uploads + 1)
           doc_meta   == extract_document_metadata(file.docling_data, doc_id)
           pages_meta == extract_page_metadata(file.docling_data, doc_id)
           chunks     == structure_aware_chunking(file.chunker_output)
       IN  /\ store' = upsert_document_tx(store, doc_meta, pages_meta, chunks)
           /\ lastIngest' = <<[doc |-> doc_meta, pages |-> pages_meta,
                               chunks |-> chunks]>>
           /\ ingestLog' = Append(ingestLog,
                                  [file |-> file.name,
                                   chunk_ids |-> {chunks[i].id : i \in DOMAIN chunks}])
    /\ uploads' = uploads + 1
    /\ UNCHANGED <<lastQuery, results, chunkVars, citeVars, extVars>>

\* upsert_document called again with the arguments of the latest call
UpsertAgain ==
    /\ lastIngest # <<>>
    /\ store' = upsert_document_tx(store, lastIngest[1].doc,
                                   lastIngest[1].pages, lastIngest[1].chunks)
    /\ UNCHANGED <<uploads, lastIngest, ingestLog, lastQuery, results,
                   chunkVars, citeVars, extVars>>

\* vector_search(get_embedding(query), k, doc_type, limit)
VectorSearch(query, k, doc_type, limit) ==
    /\ results' \in vector_search(store, get_embedding(query), k, doc_type, limit)
    /\ lastQuery' = <<[query |-> query, k |-> k, doc_type |-> doc_type,
                       limit |-> limit]>>
    /\ UNCHANGED <<store, uploads, lastIngest, ingestLog, chunkVars, citeVars,
                   extVars>>

Next ==
    \/ \E file \in Files : Upload(file)
    \/ UpsertAgain
    \/ \E query \in Queries, k \in 1..MaxK, doc_type \in DocTypes,
          limit \in 1..MaxLimit : VectorSearch(query, k, doc_type, limit)

Spec == Init /\ [][Next]_vars

----------------------------------------------------------------------------
(***************************************************************************)
(* SpecTx: upsert_document as a write transaction of the store.  Each      *)
(* execute_write call runs the statements of _upsert_document_tx one by    *)
(* one on the transaction; what it wrote becomes part of the committed     *)
(* graph at commit and is discarded when the call fails.  The uniqueness   *)
(* constraints make a MERGE wait for a transaction that holds the same     *)
(* key.  `store` is the committed graph (readers see nothing else); its    *)
(* nextId is the store's allocator of internal ids, which a discarded      *)
(* transaction has used up all the same.                                   *)
(***************************************************************************)
TxIds == {1, 2}

NoTx == [status |-> "idle", args |-> <<>>, done |-> 0,
         work |-> EmptyStore, locks |-> {}]

\* the tx.run calls of _upsert_document_tx(tx, doc, pages, chunks)
statement_count(args) == 1 + Len(args.pages) + Len(args.chunks)

\* the n-th tx.run of _upsert_document_tx applied to the graph st
apply_statement(st, args, n) ==
    IF n = 1 THEN merge_document(st, args.doc)
    ELSE IF n <= 1 + Len(args.pages) THEN merge_page(st, args.pages[n - 1])
    ELSE merge_chunk(st, args.chunks[n - 1 - Len(args.pages)], args.doc.id)

DocKey(id) == <<"Document", id>>
PageKey(docId, n) == <<"Page", docId, n>>
ChunkKey(id) == <<"Chunk", id>>

\* the constrained keys the n-th statement merges on or links to
statement_keys(args, n) ==
    IF n = 1 THEN {DocKey(args.doc.id)}
    ELSE IF n <= 1 + Len(args.pages)
    THEN LET page == args.pages[n - 1]
         IN  {PageKey(page.docId, page.page_num), DocKey(page.docId)}
    ELSE LET chunk == args.chunks[n - 1 - Len(args.pages)]
         IN  {ChunkKey(chunk.id), PageKey(args.doc.id, chunk.page_num)}

\* the nodes a transaction wrote: those of its working graph under its keys
written(tx) ==
    [ documents |-> {d \in tx.work.documents : DocKey(d.id) \in tx.locks},
      pages     |-> {p \in tx.work.pages :
                        PageKey(p.docId, p.page_num) \in tx.locks},
      chunks    |-> {c \in tx.work.chunks : ChunkKey(c.id) \in tx.locks} ]

Nids(nodes) == {x.nid : x \in nodes}

\* the committed graph overlaid with what the transaction wrote: this is
\* what the transaction's next statement reads, and what its commit leaves
overlay(committed, tx) ==
    LET w == written(tx)
    IN  [ documents |-> {d \in committed.documents : d.nid \notin Nids(w.documents)}
                            \cup w.documents,
          pages     |-> {q \in committed.pages : q.nid \notin Nids(w.pages)}
                            \cup w.pages,
          chunks    |-> {c \in committed.chunks : c.nid \notin Nids(w.chunks)}
                            \cup w.chunks,
          rels      |-> committed.rels \cup tx.work.rels,
          nextId    |-> committed.nextId ]

never_blocked(keys, held) == FALSE

\* a statement waits while another transaction holds one of its keys
blocked(keys, held) == keys \cap held # {}

after_session_run(committed, written_graph) == written_graph

\* the committed graph after a tx.run: unchanged but for the ids used up
after_tx_run(committed, written_graph) ==
    [committed EXCEPT !.nextId = written_graph.nextId]

\* upsert_document arguments: two versions of the same document (every
\* field of every shared entity differs), and another document with the
\* same chunk
TxPage(docId, n, w, h) ==
    [docId |-> docId, page_num |-> n, width |-> w, height |-> h]

TxChunk(text, page, bbox, headings) ==
    [ id |-> make_id(text, page), text |-> text, page_num |-> page,
      bbox |-> bbox, headings |-> headings, embedding |-> get_embedding(text) ]

TxDoc(id, title, family) ==
    [ id |-> id, title |-> title,
      source_uri |-> <<"f", "i", "l", "e", ":", "/", "/">> \o title,
      family |-> family ]

ArgsOld ==
    [ doc    |-> TxDoc(<<"d", "1">>, <<"A">>, "general"),
      pages  |-> <<TxPage(<<"d", "1">>, 1, 600, 800)>>,
      chunks |-> <<TxChunk(Pad \o <<"a", "a", "a">>, 1, BoxA, <<>>)>> ]

ArgsNew ==
    [ doc    |-> TxDoc(<<"d", "1">>, <<"B">>, "legal"),
      pages  |-> <<TxPage(<<"d", "1">>, 1, DefaultWidth, DefaultHeight)>>,
      chunks |-> <<TxChunk(Pad \o <<"a", "a", "b">>, 1, BoxB, <<<<"h">>>>),
                   TxChunk(<<"b">>, 1, BoxC, <<>>)>> ]

ArgsOther ==
    [ doc    |-> TxDoc(<<"d", "2">>, <<"C">>, "general"),
      pages  |-> <<TxPage(<<"d", "2">>, 1, 600, 800)>>,
      chunks |-> <<TxChunk(Pad \o <<"a", "a", "a">>, 1, BoxA, <<>>)>> ]

TxArgs == {ArgsOld, ArgsNew, ArgsOther}

HeldByOthers(t) == UNION {txs[o].locks : o \in TxIds \ {t}}

InitTx ==
    /\ txs = [t \in TxIds |-> NoTx]
    /\ commitLog = <<>>
    /\ observed = <<>>
    /\ store = EmptyStore /\ uploads = 0 /\ lastIngest = <<>>
    /\ ingestLog = <<>> /\ lastQuery = <<>> /\ results = <<>>
    /\ ChunkIdle /\ CiteIdle /\ SvcIdle /\ UpIdle

\* upsert_document: session.execute_write(self._upsert_document_tx, ...)
\* opens a transaction
Begin(t, args) ==
    /\ txs[t].status = "idle"
    /\ txs' = [txs EXCEPT ![t] = [NoTx EXCEPT !.status = "active",
                                              !.args = args]]
    /\ UNCHANGED <<store, commitLog, observed, uploads, lastIngest, ingestLog,
                   lastQuery, results, chunkVars, citeVars, svcVars, upVars>>

\* the next tx.run of _upsert_document_tx
Run(t) ==
    LET tx == txs[t]
        n  == tx.done + 1
    IN  /\ tx.status = "active"
        /\ n <= statement_count(tx.args)
        /\ ~blocked(statement_keys(tx.args, n), HeldByOthers(t))
        /\ LET res == apply_statement(overlay(store, tx), tx.args, n)
           IN  /\ txs' = [txs EXCEPT ![t].done = n, ![t].work = res,
                                     ![t].locks = @ \cup statement_keys(tx.args, n)]
               /\ store' = after_tx_run(store, res)
        /\ UNCHANGED <<commitLog, observed, uploads, lastIngest, ingestLog,
                       lastQuery, results, chunkVars, citeVars, svcVars, upVars>>

\* _upsert_document_tx returned: execute_write commits
Commit(t) ==
    LET tx == txs[t]
    IN  /\ tx.status = "active"
        /\ tx.done = statement_count(tx.args)
        /\ store' = overlay(store, tx)
        /\ commitLog' = Append(commitLog, tx.args)
        /\ txs' = [txs EXCEPT ![t].status = "committed", ![t].locks = {},
                              ![t].work = EmptyStore]
        /\ UNCHANGED <<observed, uploads, lastIngest, ingestLog, lastQuery,
                       results, chunkVars, citeVars, svcVars, upVars>>

\* a statement or the connection fails at any point before the commit: the
\* exception leaves execute_write and the transaction is rolled back
Fail(t) ==
    /\ txs[t].status = "active"
    /\ txs' = [txs EXCEPT ![t].status = "failed", ![t].locks = {},
                          ![t].work = EmptyStore]
    /\ UNCHANGED <<store, commitLog, observed, uploads, lastIngest, ingestLog,
                   lastQuery, results, chunkVars, citeVars, svcVars, upVars>>

\* a reader in a transaction of its own: it sees the committed graph
Read ==
    /\ observed' = <<store>>
    /\ UNCHANGED <<store, txs, commitLog, uploads, lastIngest, ingestLog,
                   lastQuery, results, chunkVars, citeVars, svcVars, upVars>>

NextTx ==
    \/ \E t \in TxIds, args \in TxArgs : Begin(t, args)
    \/ \E t \in TxIds : Run(t)
    \/ \E t \in TxIds : Commit(t)
    \/ \E t \in TxIds : Fail(t)
    \/ Read

SpecTx == InitTx /\ [][NextTx]_vars

----------------------------------------------------------------------------
(***************************************************************************)
(* SpecUpload: the upload operation with the file-type check, its steps,   *)
(* a fault at one of them, and the clean-up of the except block.  A call   *)
(* meets at most one fault, which may persist when the except block tries  *)
(* the failed operation again.                                             *)
(***************************************************************************)
\* str.lower() on the letters of the file names
Lower(c) ==
    CASE c = "A" -> "a" [] c = "D" -> "d" [] c = "F" -> "f"
      [] c = "P" -> "p" [] c = "T" -> "t" [] c = "X" -> "x"
      [] OTHER -> c

lower(s) == [i \in DOMAIN s |-> Lower(s[i])]

endswith(s, suffix) ==
    /\ Len(s) >= Len(suffix)
    /\ SubSeq(s, Len(s) - Len(suffix) + 1, Len(s)) = suffix

supported_any(filename) == TRUE

\* `file.filename.lower().endswith('.pdf')`
supported(filename) == endswith(lower(filename), <<".", "p", "d", "f">>)

\* the statements of the try block, in order
UploadSteps == <<"save", "copy", "parse", "document_metadata",
                 "page_metadata", "chunking", "upsert", "unlink">>

StepNo(step) == CHOOSE i \in DOMAIN UploadSteps : UploadSteps[i] = step

\* the except block: `if upload_path.exists(): upload_path.unlink()` and
\* `if documents_path.exists(): documents_path.unlink()`
cleanup(files, doc_id) ==
    [uploads |-> files.uploads \ {doc_id},
     documents |-> files.documents \ {doc_id}]

\* the files when the statement `fault` raises; `partial` says whether the
\* failing file operation left its file behind (a partly written temp file
\* or copy, a temp file that could not be removed)
files_at_fault(files, doc_id, fault, partial) ==
    LET n    == StepNo(fault)
        temp == IF n = 1 \/ n = 8 THEN partial ELSE TRUE
        copy == IF n = 1 THEN FALSE ELSE IF n = 2 THEN partial ELSE TRUE
    IN  [uploads |-> IF temp THEN files.uploads \cup {doc_id}
                     ELSE files.uploads \ {doc_id},
         documents |-> IF copy THEN files.documents \cup {doc_id}
                       ELSE files.documents \ {doc_id}]

\* the except block raises in its turn: its first statement,
\* upload_path.unlink(), is the operation that has just failed on a file
\* that is still there, and the fault persists
cleanup_raises(fault, partial, persistent) ==
    fault = "unlink" /\ partial /\ persistent

\* upload_pdf for a file named `filename` whose parse is `file`, the n-th
\* call to pass the file-type check; `fault` is "none" or the statement of
\* the try block that raises.  An exception that leaves the except block
\* reaches the caller as an internal error, not as HTTPException 500
\* "Processing failed".
upload_pdf(st, files, n, filename, file, fault, partial, persistent) ==
    IF ~supported(filename)
    THEN [ outcome |-> [status |-> "input_error", filename |-> filename,
                        doc_id |-> <<>>, failed_step |-> "none"],
           invoked |-> <<>>, fs |-> files, store |-> st, uploads |-> n ]
    ELSE
    LET doc_id     == new_doc_id(n + 1)
        doc_meta   == extract_document_metadata(file.docling_data, doc_id)
        pages_meta == extract_page_metadata(file.docling_data, doc_id)
        chunks     == structure_aware_chunking(file.chunker_output)
        stored     == upsert_document_tx(st, doc_meta, pages_meta, chunks)
    IN  IF fault = "none"
        THEN [ outcome |-> [status |-> "ok", filename |-> filename,
                            doc_id |-> doc_id, failed_step |-> "none"],
               invoked |-> UploadSteps,
               fs |-> [uploads |-> files.uploads \ {doc_id},
                       documents |-> files.documents \cup {doc_id}],
               store |-> stored, uploads |-> n + 1 ]
        ELSE IF cleanup_raises(fault, partial, persistent)
        THEN [ outcome |-> [status |-> "internal_error",
                            filename |-> filename, doc_id |-> doc_id,
                            failed_step |-> fault],
               invoked |-> UploadSteps,
               fs |-> files_at_fault(files, doc_id, fault, partial),
               store |-> stored, uploads |-> n + 1 ]
        ELSE [ outcome |-> [status |-> "processing_failed",
                            filename |-> filename, doc_id |-> doc_id,
                            failed_step |-> fault],
               invoked |-> SubSeq(UploadSteps, 1, StepNo(fault)),
               fs |-> cleanup(files_at_fault(files, doc_id, fault, partial),
                              doc_id),
               store |-> IF fault = "unlink" THEN stored ELSE st,
               uploads |-> n + 1 ]

\* names of uploaded files
FileNames == { <<"a", ".", "p", "d", "f">>, <<"A", ".", "P", "D", "F">>,
               <<"a", ".", "t", "x", "t">>, <<"p", "d", "f">>,
               <<"a", ".", "p", "d", "f", ".", "t", "x", "t">> }
UploadFiles == {FileA, FileB}

InitUpload ==
    /\ fs = NoFiles /\ outcome = <<>> /\ invoked = <<>>
    /\ ChunkIdle /\ CiteIdle /\ StoreIdle /\ SvcIdle /\ TxIdle

\* POST /upload
UploadPdf(filename, file, fault, partial, persistent) ==
    /\ uploads < MaxUploads
    /\ LET done == upload_pdf(store, fs, uploads, filename, file, fault,
                               partial, persistent)
       IN  /\ outcome' = done.outcome
           /\ invoked' = done.invoked
           /\ fs' = done.fs
           /\ store' = done.store
           /\ uploads' = done.uploads
    /\ UNCHANGED <<lastIngest, ingestLog, lastQuery, results, chunkVars,
                   citeVars, svcVars, txVars>>

NextUpload ==
    \E filename \in FileNames, file \in UploadFiles,
       fault \in {"none"} \cup Range(UploadSteps),
       partial \in BOOLEAN, persistent \in BOOLEAN :
       UploadPdf(filename, file, fault, partial, persistent)

SpecUpload == InitUpload /\ [][NextUpload]_vars

----------------------------------------------------------------------------
(***************************************************************************)
(* SpecService: the backend process from start-up on.  The schema setup,   *)
(* the gateway's search with its error handling, the answer generator and  *)
(* the query operation, reached directly or through the front end.         *)
(***************************************************************************)
\* the k and limit the front end sends with every query
FrontendK == 10
FrontendLimit == 5

ConstraintNames == <<"doc_id", "page_key", "chunk_id">>

\* setup_constraints_and_indexes against store service d, where the
\* statement named `fault` (if any) is the one the store answers with an
\* error.  The three CREATE CONSTRAINT statements run outside any try; only
\* CREATE VECTOR INDEX is inside try/except.  An unreachable store fails the
\* first statement.
setup_constraints_and_indexes(d, fault) ==
    LET failing == IF ~d.reachable THEN 1
                   ELSE IF \E i \in 1..3 : ConstraintNames[i] = fault
                        THEN CHOOSE i \in 1..3 : ConstraintNames[i] = fault
                        ELSE 4
        created == {ConstraintNames[i] : i \in 1..(IF failing > 3 THEN 3 ELSE failing - 1)}
    IN  IF failing <= 3
        THEN [raised |-> TRUE,
              db |-> [d EXCEPT !.constraints = @ \cup created]]
        ELSE [raised |-> FALSE,
              db |-> [d EXCEPT !.constraints = @ \cup created,
                               !.index = IF fault = "chunk_vec" THEN @ ELSE TRUE]]

\* the similarity query errors when the store is unreachable or the index
\* chunk_vec does not exist
query_fails(d) == ~d.reachable \/ ~d.index

vector_search_propagating(st, d, queryEmbedding, k, doc_type, limit) ==
    IF query_fails(d)
    THEN {[raised |-> TRUE, results |-> <<>>]}
    ELSE {[raised |-> FALSE, results |-> r] :
            r \in vector_search(st, queryEmbedding, k, doc_type, limit)}

\* vector_search with its error handling: the status check is in a try of
\* its own, the query and the iteration over its records are in a second
\* try whose except returns []
vector_search_try(st, d, queryEmbedding, k, doc_type, limit) ==
    IF query_fails(d)
    THEN {[raised |-> FALSE, results |-> <<>>]}
    ELSE {[raised |-> FALSE, results |-> r] :
            r \in vector_search(st, queryEmbedding, k, doc_type, limit)}

LitBased ==
    <<"B", "a", "s", "e", "d", " ", "o", "n", " ", "t", "h", "e", " ", "r",
      "e", "t", "r", "i", "e", "v", "e", "d", " ", "d", "o", "c", "u", "m",
      "e", "n", "t", "s", ":", "\n", "\n">>

\* "* " stands for the bullet and the space after it
LitBullet == <<"*", " ">>
LitNoResults ==
    <<"N", "o", " ", "r", "e", "l", "e", "v", "a", "n", "t", " ", "d", "o",
      "c", "u", "m", "e", "n", "t", "s", " ", "f", "o", "u", "n", "d", " ",
      "f", "o", "r", " ", "y", "o", "u", "r", " ", "q", "u", "e", "r", "y",
      ".">>
LitEnterQuestion ==
    <<"P", "l", "e", "a", "s", "e", " ", "e", "n", "t", "e", "r", " ", "a",
      " ", "q", "u", "e", "s", "t", "i", "o", "n", " ", "a", "b", "o", "u",
      "t", " ", "y", "o", "u", "r", " ", "u", "p", "l", "o", "a", "d", "e",
      "d", " ", "d", "o", "c", "u", "m", "e", "n", "t", ".">>

\* chunk_text.split('.')[0]
first_split(text) ==
    LET dots == {i \in 1..Len(text) : text[i] = "."}
    IN  IF dots = {} THEN text ELSE SubSeq(text, 1, Min(dots) - 1)

\* the line the general fallback adds for one result
answer_line(result) ==
    LET ctext          == result.chunk.text
        first_sentence == strip(first_split(ctext))
        tail           == <<" ", "[">> \o result.chunk.id \o <<"]", "\n", "\n">>
    IN  IF Len(ctext) > 100
        THEN IF Len(first_sentence) > 50
             THEN LitBullet \o first_sentence \o <<".">> \o tail
             ELSE LitBullet \o Take(ctext, 200) \o <<".", ".", ".">> \o tail
        ELSE LitBullet \o ctext \o tail

\* generate_answer_with_citations for non-empty search_results: the general
\* fallback over search_results[:2].  The keyword branch needs the word
\* "handicap" in the query, which no query of the model is long enough to
\* contain.
generate_answer_with_citations(query, search_results) ==
    LET first2 == Take(search_results, 2)
        body   == IF Len(first2) = 0 THEN <<>>
                  ELSE IF Len(first2) = 1 THEN answer_line(first2[1])
                  ELSE answer_line(first2[1]) \o answer_line(first2[2])
    IN  strip(LitBased \o body)

\* query_documents for one outcome of the gateway call: the QueryResponse
\* ("ok") or the HTTPException 500 ("error"), and the services it invoked
query_documents(query, found) ==
    IF found.raised
    THEN [ response |-> [status |-> "error", answer |-> <<>>, chunks |-> <<>>,
                         cited_chunks |-> <<>>],
           calls |-> <<"embed", "search">> ]
    ELSE IF found.results = <<>>
    THEN [ response |-> [status |-> "ok", answer |-> LitNoResults,
                         chunks |-> <<>>, cited_chunks |-> <<>>],
           calls |-> <<"embed", "search">> ]
    ELSE LET answer == generate_answer_with_citations(query, found.results)
         IN  [ response |-> [status |-> "ok", answer |-> answer,
                             chunks |-> found.results,
                             cited_chunks |->
                                 extract_cited_chunks(answer, found.results)],
               calls |-> <<"embed", "search", "answer", "extract">> ]

\* families a caller of upsert_document tags a document with
Families == {"general", "legal"}
\* the file is ingested repeatedly, so that documents share chunk ids
ServiceFiles == {FileA}
\* query texts: a question, the empty text and a blank one
QueryTexts == {<<"a">>, <<>>, <<" ">>}

InitService ==
    /\ proc = "down"
    /\ db \in {[NoDb EXCEPT !.reachable = r] : r \in BOOLEAN}
    /\ request = <<>> /\ response = <<>> /\ calls = <<>>
    /\ ChunkIdle /\ CiteIdle /\ StoreIdle /\ UpIdle /\ TxIdle

\* startup_event: setup_constraints_and_indexes with no handler around it;
\* an exception ends the start of the application, which may be started
\* again
Startup(fault) ==
    /\ proc \in {"down", "crashed"}
    /\ LET done == setup_constraints_and_indexes(db, fault)
       IN  /\ db' = done.db
           /\ proc' = IF done.raised THEN "crashed" ELSE "serving"
    /\ UNCHANGED <<request, response, calls, chunkVars, citeVars, storeVars,
                   upVars, txVars>>

\* the store service becomes unreachable, or reachable again
StoreOutage ==
    /\ db' = [db EXCEPT !.reachable = ~@]
    /\ UNCHANGED <<proc, request, response, calls, chunkVars, citeVars,
                   storeVars, upVars, txVars>>

\* upsert_document(doc, pages, chunks) for a parsed file, the DocumentMeta
\* carrying the family tag its caller chose
Ingest(file, family) ==
    /\ proc = "serving" /\ db.reachable
    /\ uploads < MaxUploads
    /\ LET doc_id     == new_doc_id(uploads + 1)
           doc_meta   == [extract_document_metadata(file.docling_data, doc_id)
                             EXCEPT !.family = family]
           pages_meta == extract_page_metadata(file.docling_data, doc_id)
           chunks     == structure_aware_chunking(file.chunker_output)
       IN  store' = upsert_document_tx(store, doc_meta, pages_meta, chunks)
    /\ uploads' = uploads + 1
    /\ UNCHANGED <<lastIngest, ingestLog, lastQuery, results, svcVars,
                   chunkVars, citeVars, upVars, txVars>>

\* POST /query: query_documents(request)
QueryDocuments(query, k, doc_type, limit, via) ==
    /\ proc = "serving"
    /\ \E found \in vector_search_try(store, db, get_embedding(query), k,
                                      doc_type, limit) :
          LET out == query_documents(query, found)
          IN  response' = out.response /\ calls' = out.calls
    /\ request' = [query |-> query, k |-> k, doc_type |-> doc_type,
                   limit |-> limit, via |-> via,
                   failed |-> query_fails(db), snapshot |-> store]
    /\ UNCHANGED <<proc, db, chunkVars, citeVars, storeVars, upVars, txVars>>

\* handle_query of the front end: a blank query is answered at once,
\* anything else is posted to /query with doc_type "general", k 10, limit 5
HandleQuery(query) ==
    IF strip(query) = <<>>
    THEN /\ request' = [query |-> query, k |-> FrontendK,
                        doc_type |-> "general", limit |-> FrontendLimit,
                        via |-> "frontend", failed |-> FALSE,
                        snapshot |-> store]
         /\ response' = [status |-> "input_error", answer |-> LitEnterQuestion,
                         chunks |-> <<>>, cited_chunks |-> <<>>]
         /\ calls' = <<>>
         /\ UNCHANGED <<proc, db, chunkVars, citeVars, storeVars, upVars,
                        txVars>>
    ELSE QueryDocuments(query, FrontendK, "general", FrontendLimit, "frontend")

NextService ==
    \/ \E fault \in {"none", "doc_id", "page_key", "chunk_id", "chunk_vec"} :
          Startup(fault)
    \/ StoreOutage
    \/ \E file \in ServiceFiles, family \in Families : Ingest(file, family)
    \/ \E query \in QueryTexts, doc_type \in DocTypes :
          QueryDocuments(query, MaxK, doc_type, MaxLimit, "backend")
    \/ \E query \in QueryTexts : HandleQuery(query)

SpecService == InitService /\ [][NextService]_vars

----------------------------------------------------------------------------
(***************************************************************************)
(* Properties of the chunk builder (SpecChunk).                            *)
(***************************************************************************)
\* input chunks that have a non-whitespace character, i.e. that are kept
KeptIdx ==
    {i \in DOMAIN parsed : \E j \in DOMAIN parsed[i].text : ~IsSpace(parsed[i].text[j])}

\* where the i-th input chunk lands in the output, if it is kept
OutPos(i) == Cardinality({j \in KeptIdx : j <= i})

\* every provenance box of every constituent item of a chunk
AllProvBoxes(doc_items) ==
    UNION { {doc_items[i].prov[k].bbox : k \in DOMAIN doc_items[i].prov}
            : i \in DOMAIN doc_items }

ValidBox(b) == b[1] <= b[3] /\ b[4] <= b[2]

\* box outer contains box inner
Contains(outer, inner) ==
    /\ outer[1] <= inner[1] /\ outer[2] >= inner[2]
    /\ outer[3] >= inner[3] /\ outer[4] <= inner[4]

\* C7 (as claimed): a chunk with provenance has bbox [min left, max top,
\* max right, min bottom] over EVERY provenance box of every constituent
\* item, and so contains each of them; a chunk without provenance gets
\* page 1 and bbox [0,0,0,0].
C7_MergedOverAllProvenance ==
    cstage = "done" =>
        \A i \in KeptIdx :
            LET boxes == AllProvBoxes(parsed[i].doc_items)
                out   == chunks_data[OutPos(i)]
            IN  IF boxes = {}
                THEN out.page_num = 1 /\ out.bbox = <<0, 0, 0, 0>>
                ELSE /\ out.bbox = << Min({b[1] : b \in boxes}),
                                      Max({b[2] : b \in boxes}),
                                      Max({b[3] : b \in boxes}),
                                      Min({b[4] : b \in boxes}) >>
                     /\ \A b \in boxes : Contains(out.bbox, b)

\* C8: every output chunk has left <= right and bottom <= top, provided
\* every provenance box of its constituent items does.
C8_BboxValid ==
    cstage = "done" =>
        \A i \in KeptIdx :
            (\A b \in AllProvBoxes(parsed[i].doc_items) : ValidBox(b))
                => ValidBox(chunks_data[OutPos(i)].bbox)

\* C8 witness: a chunk merged from two disjoint valid boxes was built
C8_Witness ==
    /\ cstage = "done"
    /\ \E i \in KeptIdx :
          /\ parsed[i].doc_items = <<ItemA, ItemC>>
          /\ chunks_data[OutPos(i)].bbox = <<0, 10, 9, 0>>

\* C9: two chunks have the same id exactly when they have the same page
\* number and the same first IdPrefixLen characters of trimmed text; the
\* text after that prefix does not matter.
C9_IdIsPageAndPrefix ==
    cstage = "done" =>
        \A i, j \in DOMAIN chunks_data :
            (chunks_data[i].id = chunks_data[j].id)
                <=> /\ chunks_data[i].page_num = chunks_data[j].page_num
                    /\ Take(chunks_data[i].text, IdPrefixLen)
                         = Take(chunks_data[j].text, IdPrefixLen)

\* C9 witness: two chunks on one page whose texts differ only after the
\* prefix got the same id, next to cases where the page or the prefix differ
C9_Witness ==
    /\ cstage = "done"
    /\ Len(chunks_data) = 2
    /\ chunks_data[1].id = chunks_data[2].id
    /\ chunks_data[1].text # chunks_data[2].text
    /\ Len(chunks_data[1].text) > IdPrefixLen

\* C10: the output holds, in input order, exactly the chunks whose text
\* does not trim to empty, each with its trimmed, non-empty text.
C10_NoEmptyChunksInOrder ==
    cstage = "done" =>
        /\ Len(chunks_data) = Cardinality(KeptIdx)
        /\ \A i \in KeptIdx : chunks_data[OutPos(i)].text = strip(parsed[i].text)
        /\ \A k \in DOMAIN chunks_data :
              LET t == chunks_data[k].text
              IN  t # <<>> /\ ~IsSpace(t[1]) /\ ~IsSpace(t[Len(t)])

\* C10 witness: a blank chunk was dropped and the chunk after it, whose text
\* needed trimming, was kept
C10_Witness ==
    /\ cstage = "done"
    /\ Len(parsed) = 2 /\ Len(chunks_data) = 1
    /\ parsed[1].text = <<" ">>
    /\ parsed[2].text = <<" ", "a", " ">>
    /\ chunks_data[1].text = <<"a">>

\* the provenance records whose boxes were merged into a chunk's bbox
MergedProvs(doc_items) ==
    { doc_items[i].prov[1] : i \in {j \in DOMAIN doc_items : doc_items[j].prov # <<>>} }

\* C19 (as claimed): every provenance box merged into a chunk's bbox lies on
\* the page recorded as the chunk's page_num, also when the constituent
\* items come from different pages.
C19_MergedBoxesOnChunkPage ==
    cstage = "done" =>
        \A i \in KeptIdx :
            \A pr \in MergedProvs(parsed[i].doc_items) :
                pr.page_no = chunks_data[OutPos(i)].page_num

----------------------------------------------------------------------------
(***************************************************************************)
(* Properties of the citation resolver (SpecCite).                         *)
(***************************************************************************)
\* The markers of a text, stated without scanning: <<i, j>> is a marker when
\* text[i] = "[", text[j] = "]" is the first "]" after i, at least one
\* character lies between them, and no earlier "[" is still open at i.
MarkerSpans(text) ==
    { sp \in (1..Len(text)) \X (1..Len(text)) :
        /\ text[sp[1]] = "[" /\ text[sp[2]] = "]"
        /\ sp[2] > sp[1] + 1
        /\ \A r \in (sp[1] + 1)..(sp[2] - 1) : text[r] # "]"
        /\ \A q \in 1..(sp[1] - 1) :
              text[q] = "[" => \E r \in (q + 1)..(sp[1] - 1) : text[r] = "]" }

MarkerIds(text) == {SubSeq(text, sp[1] + 1, sp[2] - 1) : sp \in MarkerSpans(text)}

\* the markers of a text from left to right
SortedSpans(text) ==
    LET S == MarkerSpans(text)
    IN  [k \in 1..Cardinality(S) |->
            CHOOSE sp \in S : Cardinality({o \in S : o[1] < sp[1]}) = k - 1]

RECURSIVE Flatten(_)
Flatten(ss) == IF ss = <<>> THEN <<>> ELSE Head(ss) \o Flatten(Tail(ss))

\* the text with every marker replaced by R(its identifier) and everything
\* outside the markers kept
Rebuild(text, R(_)) ==
    LET sp == SortedSpans(text)
        n  == Len(sp)
        gap(k) == SubSeq(text,
                         IF k = 1 THEN 1 ELSE sp[k - 1][2] + 1,
                         IF k = n + 1 THEN Len(text) ELSE sp[k][1] - 1)
    IN  Flatten([m \in 1..(2 * n + 1) |->
            IF m % 2 = 1 THEN gap((m + 1) \div 2)
            ELSE R(SubSeq(text, sp[m \div 2][1] + 1, sp[m \div 2][2] - 1))])

CandidateIds == {candidates[i].chunk.id : i \in DOMAIN candidates}

\* C4: the keys of the extracted mapping are exactly the marker identifiers
\* that are the chunk id of a candidate, and each value is the
\* {docId, page, bbox, text} of a candidate with that chunk id.
C4_ExtractExactlyCitedCandidates ==
    xstage \in {"extracted", "linked"} =>
        /\ DOMAIN cited_chunks = MarkerIds(answer_text) \cap CandidateIds
        /\ \A key \in DOMAIN cited_chunks :
              \E i \in DOMAIN candidates :
                  /\ candidates[i].chunk.id = key
                  /\ cited_chunks[key] =
                        [ docId |-> candidates[i].doc.id,
                          page  |-> candidates[i].chunk.page_num,
                          bbox  |-> candidates[i].chunk.bbox,
                          text  |-> candidates[i].chunk.text ]

\* C4 witness: an answer citing one candidate and carrying a marker that
\* matches none, with a second candidate left uncited
C4_Witness ==
    /\ xstage = "extracted"
    /\ answer_text = <<"[", "a", "]", "[", " ", "]">>
    /\ candidates = <<ResA1, ResB>>
    /\ DOMAIN cited_chunks = {<<"a">>}

\* the reference a resolved marker must carry
ReferenceOf(p) ==
    <<"d", "o", "c", "=">> \o p.docId
      \o <<"&", "p", "a", "g", "e", "=">> \o Str(p.page)
      \o <<"&", "b", "b", "o", "x", "=">>
      \o Str(p.bbox[1]) \o <<",">> \o Str(p.bbox[2]) \o <<",">>
      \o Str(p.bbox[3]) \o <<",">> \o Str(p.bbox[4])

LinkOf(id, p) ==
    LitOpen \o LitViewer \o ReferenceOf(p) \o LitTarget \o id \o LitClose

\* C5: every marker whose identifier has a payload, each time it occurs, is
\* replaced by the link that encodes doc, page and the four bbox coordinates
\* of that payload, and the text outside the markers is kept.
C5_LinkifyResolved ==
    xstage = "linked" =>
        linked = Rebuild(answer_text,
                         LAMBDA g : IF g \in DOMAIN cited_chunks
                                    THEN LinkOf(g, cited_chunks[g])
                                    ELSE repl(g, cited_chunks))

\* C5 witness: the same resolved identifier cited twice
C5_Witness ==
    /\ xstage = "linked"
    /\ answer_text = <<"[", "a", "]", "[", "a", "]">>
    /\ <<"a">> \in DOMAIN cited_chunks
    /\ linked = LinkOf(<<"a">>, cited_chunks[<<"a">>])
                  \o LinkOf(<<"a">>, cited_chunks[<<"a">>])

\* C6 (as claimed): a marker with no resolved payload stays in the output
\* character for character.  Stated for the markers that have no payload
\* even after their identifier is trimmed.
C6_UnresolvedMarkerUnchanged ==
    xstage = "linked" =>
        linked = Rebuild(answer_text,
                         LAMBDA g : IF strip(g) \notin DOMAIN cited_chunks
                                    THEN <<"[">> \o g \o <<"]">>
                                    ELSE repl(g, cited_chunks))

----------------------------------------------------------------------------
(***************************************************************************)
(* Properties of the evidence store and the search (Spec).                 *)
(***************************************************************************)
UniqueKeys ==
    /\ \A d1, d2 \in store.documents : d1.id = d2.id => d1 = d2
    /\ \A p1, p2 \in store.pages :
          (p1.docId = p2.docId /\ p1.page_num = p2.page_num) => p1 = p2
    /\ \A c1, c2 \in store.chunks : c1.id = c2.id => c1 = c2

NoDuplicateRels ==
    \A r1, r2 \in store.rels :
        (r1.type = r2.type /\ r1.from = r2.from /\ r1.to = r2.to) => r1 = r2

\* C1: ingesting the same file twice gives the same chunk ids both times;
\* the store holds one Document per id, one Page per (docId, page_num), one
\* Chunk per id and no relationship twice; and upsert_document called again
\* with the arguments of the latest call leaves the store as it is.
C1_IdempotentIngestion ==
    /\ UniqueKeys
    /\ NoDuplicateRels
    /\ \A i, j \in DOMAIN ingestLog :
          ingestLog[i].file = ingestLog[j].file
              => ingestLog[i].chunk_ids = ingestLog[j].chunk_ids
    /\ lastIngest # <<>> =>
          upsert_document_tx(store, lastIngest[1].doc, lastIngest[1].pages,
                             lastIngest[1].chunks) = store

\* C1 witness: the same file was ingested twice; its chunk is stored once
C1_Witness ==
    /\ Len(ingestLog) = 2
    /\ ingestLog[1].file = "B.pdf" /\ ingestLog[2].file = "B.pdf"
    /\ Cardinality(store.chunks) = 2
    /\ Cardinality(store.documents) = 2

InPageRels(c) == {r \in store.rels : r.type = "IN_PAGE" /\ r.from = c.nid}
OfRels(p) == {r \in store.rels : r.type = "OF" /\ r.from = p.nid}

\* C2 (as claimed): in every reachable store every Chunk has exactly one
\* IN_PAGE relation and every Page exactly one OF relation.
C2_OnePagePerChunkOneDocPerPage ==
    /\ \A c \in store.chunks : Cardinality(InPageRels(c)) = 1
    /\ \A p \in store.pages : Cardinality(OfRels(p)) = 1

\* C3 (as claimed): the list vector_search returns is ordered by
\* non-increasing score and holds at most min(k, limit) results.
C3_OrderedAndBounded ==
    lastQuery # <<>> =>
        /\ \A i \in 1..(Len(results) - 1) : results[i].score >= results[i + 1].score
        /\ Len(results) <= lastQuery[1].k
        /\ Len(results) <= lastQuery[1].limit

----------------------------------------------------------------------------
(***************************************************************************)
(* Properties of the service (SpecService).                                *)
(***************************************************************************)
\* the latest operation was a query that reached query_documents
Queried == request # <<>> /\ calls # <<>>

\* C11: when the store holds no chunk, or the similarity query fails (index
\* missing, store unreachable), the search returns the empty list without
\* raising, and the query operation answers with a well-formed response
\* whose chunks list and cited-chunks mapping are empty.
C11_EmptyResponseWhenNothingFound ==
    (Queried /\ (request.failed \/ request.snapshot.chunks = {})) =>
        /\ response.status = "ok"
        /\ response.answer = LitNoResults
        /\ response.chunks = <<>>
        /\ response.cited_chunks = <<>>

\* a query failed against a store that holds chunks, and was answered empty
C11_Witness ==
    /\ Queried /\ request.failed /\ request.snapshot.chunks # {}
    /\ response.status = "ok" /\ response.chunks = <<>>

\* C12 (as claimed): under a family filter other than "general" every result
\* is a chunk of a Document of that family (a Chunk node carries no family
\* tag of its own); with the filter unset or "general" the results are those
\* of the unfiltered search.
C12_FamilyFilter ==
    (Queried /\ ~request.failed) =>
        LET st == request.snapshot
        IN  /\ filter_applies(request.doc_type) =>
                \A i \in DOMAIN response.chunks :
                    \E d \in st.documents :
                        /\ d.id = response.chunks[i].doc.id
                        /\ d.family = request.doc_type
            /\ ~filter_applies(request.doc_type) =>
                response.chunks \in
                    vector_search(st, get_embedding(request.query), request.k,
                                  "", request.limit)

\* C15 (as claimed): whatever error the schema setup meets, the process
\* starts and serves (it never ends in a failed start).
C15_StartupSurvivesSetupErrors == proc # "crashed"

\* C18 (as claimed): a query operation with an empty query text is rejected
\* as an input error before any embedding or search.
C18_EmptyQueryRejected ==
    (request # <<>> /\ request.query = <<>>) =>
        response.status = "input_error" /\ calls = <<>>

----------------------------------------------------------------------------
(***************************************************************************)
(* Properties of the upload operation (SpecUpload).                        *)
(***************************************************************************)
\* the name ends in .pdf, in any letter case
NameEndsInPdf(filename) ==
    /\ Len(filename) >= 4
    /\ lower(SubSeq(filename, Len(filename) - 3, Len(filename)))
           = <<".", "p", "d", "f">>

\* C16 (as claimed): an upload that fails at a step after the file-type
\* check, the final temp-file removal included, ends with the
\* processing-failed error and leaves neither the temp file nor the
\* documents copy of its doc_id; an upload that succeeds leaves the
\* documents copy and no temp file.
C16_CleanupOnFailure ==
    outcome # <<>> =>
        /\ (NameEndsInPdf(outcome.filename) /\ outcome.failed_step # "none") =>
              /\ outcome.status = "processing_failed"
              /\ outcome.doc_id \notin fs.uploads
              /\ outcome.doc_id \notin fs.documents
        /\ outcome.status = "ok" =>
              /\ outcome.doc_id \notin fs.uploads
              /\ outcome.doc_id \in fs.documents

\* for the faults the except block copes with: when upload_pdf raises the
\* processing-failed error, neither file of its doc_id is left
CleanupWhenHandled ==
    (outcome # <<>> /\ outcome.status = "processing_failed") =>
        /\ outcome.doc_id \notin fs.uploads
        /\ outcome.doc_id \notin fs.documents

\* C17: an upload whose file name does not end in .pdf is rejected as an
\* input error: no file is written, no step of the pipeline (parser,
\* embedder, store) is invoked, and the store is unchanged.
C17_WrongTypeRejected ==
    [][ (outcome' # <<>> /\ ~NameEndsInPdf(outcome'.filename)) =>
            /\ outcome'.status = "input_error"
            /\ invoked' = <<>>
            /\ fs' = fs
            /\ store' = store ]_vars

\* a file of another type was rejected by a service that holds a document
C17_Witness ==
    /\ outcome # <<>>
    /\ outcome.status = "input_error"
    /\ store.documents # {} /\ fs.documents # {}

----------------------------------------------------------------------------
(***************************************************************************)
(* Properties of the store's write transactions (SpecTx).                  *)
(***************************************************************************)
\* a graph without its internal ids: entities by their properties,
\* relationships by the keys of their end nodes
KeyOfNid(st, nid) ==
    IF \E d \in st.documents : d.nid = nid
    THEN DocKey((CHOOSE d \in st.documents : d.nid = nid).id)
    ELSE IF \E q \in st.pages : q.nid = nid
    THEN LET q == CHOOSE q \in st.pages : q.nid = nid
         IN  PageKey(q.docId, q.page_num)
    ELSE IF \E c \in st.chunks : c.nid = nid
    THEN ChunkKey((CHOOSE c \in st.chunks : c.nid = nid).id)
    ELSE <<"dangling", nid>>

Abstract(st) ==
    [ documents |-> {[id |-> d.id, title |-> d.title,
                      source_uri |-> d.source_uri, family |-> d.family]
                        : d \in st.documents},
      pages     |-> {[docId |-> q.docId, page_num |-> q.page_num,
                      width |-> q.width, height |-> q.height] : q \in st.pages},
      chunks    |-> {[id |-> c.id, text |-> c.text, page_num |-> c.page_num,
                      bbox |-> c.bbox, headings |-> c.headings,
                      embedding |-> c.embedding] : c \in st.chunks},
      rels      |-> {<<r.type, KeyOfNid(st, r.from), KeyOfNid(st, r.to)>>
                        : r \in st.rels} ]

\* the graph after the upsert_document calls of log, one after the other,
\* each in full
RECURSIVE Replay(_)
Replay(log) ==
    IF log = <<>> THEN EmptyStore
    ELSE LET a == log[Len(log)]
         IN  upsert_document_tx(Replay(SubSeq(log, 1, Len(log) - 1)),
                                a.doc, a.pages, a.chunks)

\* C13: the committed graph is at every moment the outcome of whole
\* upsert_document calls, those that committed, and so is whatever a
\* reader saw: a call that failed after the Document merge, between two
\* pages or between two chunks, or that has not committed yet, has left
\* nothing.
C13_UpsertAtomic ==
    /\ Abstract(store) = Abstract(Replay(commitLog))
    /\ observed # <<>> =>
          \E n \in 0..Len(commitLog) :
              Abstract(observed[1]) = Abstract(Replay(SubSeq(commitLog, 1, n)))

\* a call failed after some but not all of its statements, another one
\* committed, and a reader has looked
C13_Witness ==
    /\ \E t \in TxIds :
          /\ txs[t].status = "failed"
          /\ txs[t].done >= 2
          /\ txs[t].done < statement_count(txs[t].args)
    /\ commitLog # <<>>
    /\ observed # <<>>

DocWriters(id) == {i \in DOMAIN commitLog : commitLog[i].doc.id = id}
PageWriters(docId, n) ==
    {i \in DOMAIN commitLog :
        \E j \in DOMAIN commitLog[i].pages :
            commitLog[i].pages[j].docId = docId /\ commitLog[i].pages[j].page_num = n}
ChunkWriters(id) ==
    {i \in DOMAIN commitLog :
        \E j \in DOMAIN commitLog[i].chunks : commitLog[i].chunks[j].id = id}

\* C14: whatever the order in which concurrent ingestions of the same keys
\* commit, the store holds one entity per key, and every entity has all its
\* fields from the call that committed last among those that wrote it.
C14_LastCommittedWins ==
    /\ UniqueKeys
    /\ \A i \in DOMAIN commitLog :
          /\ match_document(store, commitLog[i].doc.id) # {}
          /\ \A j \in DOMAIN commitLog[i].pages :
                match_page(store, commitLog[i].pages[j].docId,
                           commitLog[i].pages[j].page_num) # {}
          /\ \A j \in DOMAIN commitLog[i].chunks :
                match_chunk(store, commitLog[i].chunks[j].id) # {}
    /\ \A d \in store.documents :
          /\ DocWriters(d.id) # {}
          /\ LET a == commitLog[Max(DocWriters(d.id))].doc
             IN  /\ d.title = a.title /\ d.source_uri = a.source_uri
                 /\ d.family = a.family
    /\ \A q \in store.pages :
          /\ PageWriters(q.docId, q.page_num) # {}
          /\ LET a == commitLog[Max(PageWriters(q.docId, q.page_num))]
             IN  \E j \in DOMAIN a.pages :
                    /\ a.pages[j].docId = q.docId
                    /\ a.pages[j].page_num = q.page_num
                    /\ a.pages[j].width = q.width
                    /\ a.pages[j].height = q.height
    /\ \A c \in store.chunks :
          /\ ChunkWriters(c.id) # {}
          /\ LET a == commitLog[Max(ChunkWriters(c.id))]
             IN  \E j \in DOMAIN a.chunks :
                    /\ a.chunks[j].id = c.id
                    /\ a.chunks[j].text = c.text
                    /\ a.chunks[j].page_num = c.page_num
                    /\ a.chunks[j].bbox = c.bbox
                    /\ a.chunks[j].headings = c.headings
                    /\ a.chunks[j].embedding = c.embedding

\* two calls for the same document id, with different values for every
\* field, have both committed
C14_Witness ==
    /\ Len(commitLog) = 2
    /\ commitLog[1].doc.id = commitLog[2].doc.id
    /\ commitLog[1] # commitLog[2]
    /\ \A t \in TxIds : txs[t].status = "committed"

=============================================================================
